---- MODULE Spec2Model ----
(***************************************************************************)
(* A model of the HiDrive API hub of dermesser/hd_api (src/src/hidrive.rs). *)
(*                                                                         *)
(* Four specifications share the variables below:                          *)
(*   NotifSpec  the notification session (HiDriveNotifications::new and     *)
(*              ::next) against a peer that sends WebSocket frames;         *)
(*   Spec       the endpoint calls of HiDrivePermission / HiDriveFiles,     *)
(*              from the construction of the parameters to the response;    *)
(*   TokenSpec  callers of the Token Manager running concurrently;          *)
(*   HubSpec    tasks that take handles and sessions from one hub, each     *)
(*              of which holds the hub's `&mut` borrow while it lives.      *)
(*                                                                         *)
(* crate::http::Client, crate::oauth2::Authorizer, Params and Identifier    *)
(* are used by hidrive.rs but are not part of the sources at hand: they are *)
(* modelled from the design document (sections 3, 4.1 - 4.3).               *)
(* tokio_tungstenite's WebSocketStream is an external library; StreamNext   *)
(* models what its Stream implementation yields to the match in next().     *)
(***************************************************************************)
EXTENDS Naturals, Sequences, FiniteSets, TLC

\* ---------------------------------------------------------------- bounds
MaxFrames == 3      \* frames the peer sends during one session
MaxCalls == 4       \* next() calls made on one session
MaxTokens == 3      \* access tokens the authorization server issues
MaxRanges == 2      \* length of the range list given to hash()
NCallers == 3       \* concurrent callers of the Token Manager
NTasks == 3         \* pieces of caller code that want to use the one hub
MaxSends == 3       \* requests sent for one call before the model stops resending

\* ------------------------------------------------------------- constants
DEFAULT_API_BASE_URL == "https://api.hidrive.strato.com/2.1"
DEFAULT_WS_BASE_URL == "wss://api.hidrive.strato.com/2.1/subscribe"

VARIABLES
    \* Token Manager (hd.client)
    tokCache,       \* the cached access token, 0 when there is none
    tokValid,       \* whether the cached token is still within its lifetime
    \* notification session
    nPc,            \* "none" | "handshake" | "open" | "reading" | "failed"
    ws,             \* the stream's protocol state
    inbound,        \* frames received from the peer and not yet read
    eof,            \* the peer has closed the connection
    consumed,       \* history: the frames the stream has read, in order
    results,        \* history: what each next() call returned, and why
    nTokenReqs,     \* history: access_token() calls made for this session
    nHandshakes,    \* history: WebSocket handshakes attempted
    handshakeUrl,   \* history: the URL of the handshake
    openTok,        \* history: the token access_token() returned to new(),
                    \* 0 when it returned an error
    openErr,        \* the error new() returned, "" when none
    \* endpoint call in progress on the hub
    ePc,            \* "idle" | "built" | "attached" | "sent" | "done"
    call,           \* the endpoint called and the caller's arguments
    eMand,          \* history: the mandatory Params handed to request()
    req,            \* the pending request, NoReq when there is none
    wire,           \* history: the requests sent for this call, in order
    responses,      \* history: the statuses received for this call
    nGo,            \* history: go() / download_file() calls of this call
    eTokenReqs,     \* history: access_token() calls made by request()
    eRefresh401,    \* history: refreshes made because of a 401 response
    eResult,        \* what the call returned, "" while it runs
    \* concurrent callers of the Token Manager
    cPc,            \* per caller: "idle" | "waiting" | "refreshing" | "done"
    cRes,           \* per caller: the token or the error it received
    cMiss,          \* history, per caller: it found the cached token expired
    tRefreshCalls,  \* history: refresh network calls started in this round
    concurrent,     \* history: no caller of this round started after
                    \* another one had returned
    \* borrows of the hub
    hHandle,        \* per task: "none" | "user" | "permissions" | "files" |
                    \* "opening" | "session": what it holds of the hub
    hCalls          \* the endpoint calls in flight: [task, ep, phase]

evars == <<ePc, call, eMand, req, wire, responses, nGo, eTokenReqs,
           eRefresh401, eResult>>
hvars == <<hHandle, hCalls>>
cvars == <<cPc, cRes, cMiss, tRefreshCalls, concurrent>>
nvars == <<nPc, ws, inbound, eof, consumed, results, nTokenReqs, nHandshakes,
           handshakeUrl, openTok, openErr>>
tvars == <<tokCache, tokValid>>
vars == <<tvars, nvars, evars, cvars, hvars>>

\* ------------------------------------------------------------- formatting
\* Rust's Display for unsigned integers: base-10, no padding.
DigitChar(d) ==
    CASE d = 0 -> "0" [] d = 1 -> "1" [] d = 2 -> "2" [] d = 3 -> "3"
      [] d = 4 -> "4" [] d = 5 -> "5" [] d = 6 -> "6" [] d = 7 -> "7"
      [] d = 8 -> "8" [] d = 9 -> "9"

RECURSIVE Dec(_)
Dec(n) == IF n < 10 THEN DigitChar(n) ELSE Dec(n \div 10) \o DigitChar(n % 10)

\* The access token string of the n-th token the server issued.
TokStr(n) == "tok" \o Dec(n)

\* ---------------------------------------------------------- Token Manager
\* access_token(): the cached token when it is valid, else the result of a
\* refresh, which either stores and returns a fresh token or fails.
AccessTokenOutcomes ==
    IF tokValid /\ tokCache # 0
    THEN {[ok |-> TRUE, tok |-> tokCache, cache |-> tokCache, valid |-> TRUE,
           refreshed |-> FALSE]}
    ELSE {[ok |-> TRUE, tok |-> tokCache + 1, cache |-> tokCache + 1,
           valid |-> TRUE, refreshed |-> TRUE] : x \in {y \in {0} : tokCache < MaxTokens}}
         \cup {[ok |-> FALSE, tok |-> 0, cache |-> tokCache, valid |-> FALSE,
                refreshed |-> TRUE]}

\* The cached token passes its expiry.
Expire ==
    /\ tokValid
    /\ tokCache < MaxTokens
    /\ tokValid' = FALSE
    /\ UNCHANGED <<tokCache, nvars, evars, cvars, hvars>>

\* ------------------------------------------------------ notification session
TextPayloads == {"{\"id\":1}", "{\"id\":2}", "null", "{"}

Frames ==
    [type : {"Text"}, payload : TextPayloads]
    \cup [type : {"Close", "Ping", "Pong", "Binary"}, payload : {""}]

NoFrame == [type |-> "None", payload |-> ""]

\* serde_json::from_str::<Option<WebsocketNotification>>(s): the return type
\* of next() makes the target an Option, which serde decodes from the JSON
\* literal null as None.
from_str(s) ==
    IF s = "null" THEN [kind |-> "None", val |-> ""]
    ELSE IF s \in {"{\"id\":1}", "{\"id\":2}"} THEN [kind |-> "Some", val |-> s]
    ELSE [kind |-> "Err", val |-> "json"]

\* format!("{}?access_token={}", url, token)
WsUrlNoToken(url, tok) == url

WsUrl(url, tok) == url \o "?access_token=" \o TokStr(tok)

\* What self.stream.next().await yields, and the stream's next protocol
\* state. A frame that arrives after the peer's close frame is a protocol
\* error; the end of the connection is an error unless a close frame came
\* first; a terminated stream yields None at once.
StreamReady == ws = "Terminated" \/ inbound # <<>> \/ eof

StreamNext ==
    IF ws = "Terminated" THEN [item |-> "None", frame |-> NoFrame, ws |-> ws]
    ELSE IF inbound # <<>> THEN
        LET f == Head(inbound) IN
        IF ws = "ClosedByPeer"
        THEN [item |-> "Err", frame |-> f, ws |-> ws]
        ELSE [item |-> "Ok", frame |-> f,
              ws |-> IF f.type = "Close" THEN "ClosedByPeer" ELSE ws]
    ELSE IF ws = "ClosedByPeer"
        THEN [item |-> "None", frame |-> NoFrame, ws |-> "Terminated"]
        ELSE [item |-> "Err", frame |-> NoFrame, ws |-> "Terminated"]

\* One pass of the loop of next() over the item the stream yielded: the
\* value returned, or "continue".
NextMatch(s) ==
    IF s.item = "None" THEN [kind |-> "None", val |-> ""]
    ELSE IF s.item = "Err" THEN [kind |-> "Err", val |-> "ws"]
    ELSE IF s.frame.type = "Text" THEN from_str(s.frame.payload)
    ELSE IF s.frame.type = "Close" THEN [kind |-> "None", val |-> ""]
    ELSE [kind |-> "continue", val |-> ""]

\* HiDriveNotifications::new up to the handshake: one access_token() call,
\* whose error is returned by `?` before any connection is attempted.
NotifOpen ==
    /\ nPc = "none"
    /\ \E o \in AccessTokenOutcomes :
        /\ tokCache' = o.cache
        /\ tokValid' = o.valid
        /\ nTokenReqs' = nTokenReqs + 1
        /\ IF o.ok
           THEN /\ nPc' = "handshake"
                /\ openTok' = o.tok
                /\ handshakeUrl' = WsUrl(DEFAULT_WS_BASE_URL, o.tok)
                /\ openErr' = ""
           ELSE /\ nPc' = "failed"
                /\ openTok' = 0
                /\ openErr' = "AuthError"
                /\ UNCHANGED handshakeUrl
    /\ UNCHANGED <<ws, inbound, eof, consumed, results, nHandshakes>>
    /\ UNCHANGED <<evars, cvars, hvars>>

\* connect_async(url): the handshake succeeds and the session exists, or it
\* fails and new() returns the error.
NotifConnect ==
    /\ nPc = "handshake"
    /\ nHandshakes' = nHandshakes + 1
    /\ \/ nPc' = "open" /\ ws' = "Active" /\ UNCHANGED openErr
       \/ nPc' = "failed" /\ openErr' = "WsError" /\ UNCHANGED ws
    /\ UNCHANGED <<tvars, inbound, eof, consumed, results, nTokenReqs,
                   handshakeUrl, openTok>>
    /\ UNCHANGED <<evars, cvars, hvars>>

\* The caller calls next().
NextCall ==
    /\ nPc = "open"
    /\ Len(results) < MaxCalls
    /\ nPc' = "reading"
    /\ UNCHANGED <<tvars, ws, inbound, eof, consumed, results, nTokenReqs,
                   nHandshakes, handshakeUrl, openTok, openErr>>
    /\ UNCHANGED <<evars, cvars, hvars>>

\* One pass of the loop of next(): the stream yields an item and the match
\* returns or continues.
NextPoll ==
    /\ nPc = "reading"
    /\ StreamReady
    /\ LET s == StreamNext
           r == NextMatch(s)
       IN /\ ws' = s.ws
          /\ IF s.frame = NoFrame
             THEN UNCHANGED <<inbound, consumed>>
             ELSE /\ inbound' = Tail(inbound)
                  /\ consumed' = Append(consumed, s.frame)
          /\ IF r.kind = "continue"
             THEN UNCHANGED <<nPc, results>>
             ELSE /\ nPc' = "open"
                  /\ results' = Append(results,
                        [kind |-> r.kind, val |-> r.val, item |-> s.item,
                         frame |-> s.frame, at |-> Len(consumed')])
    /\ UNCHANGED <<tvars, eof, nTokenReqs, nHandshakes, handshakeUrl, openTok,
                   openErr>>
    /\ UNCHANGED <<evars, cvars, hvars>>

\* The peer sends a frame.
PeerSend ==
    /\ nPc \in {"open", "reading"}
    /\ ~eof
    /\ Len(consumed) + Len(inbound) < MaxFrames
    /\ \E f \in Frames : inbound' = Append(inbound, f)
    /\ UNCHANGED <<tvars, nPc, ws, eof, consumed, results, nTokenReqs,
                   nHandshakes, handshakeUrl, openTok, openErr>>
    /\ UNCHANGED <<evars, cvars, hvars>>

\* The peer closes the connection.
PeerEof ==
    /\ nPc \in {"open", "reading"}
    /\ ~eof
    /\ eof' = TRUE
    /\ UNCHANGED <<tvars, nPc, ws, inbound, consumed, results, nTokenReqs,
                   nHandshakes, handshakeUrl, openTok, openErr>>
    /\ UNCHANGED <<evars, cvars, hvars>>

\* The caller drops the session, or the failed attempt, and may open again.
NotifDrop ==
    /\ nPc \in {"open", "failed"}
    /\ nPc' = "none"
    /\ ws' = "NoStream"
    /\ inbound' = <<>>
    /\ eof' = FALSE
    /\ consumed' = <<>>
    /\ results' = <<>>
    /\ nTokenReqs' = 0
    /\ nHandshakes' = 0
    /\ handshakeUrl' = ""
    /\ openTok' = 0
    /\ openErr' = ""
    /\ UNCHANGED tvars
    /\ UNCHANGED <<evars, cvars, hvars>>

\* ------------------------------------------------------------- Parameter Model
\* Params: an ordered sequence of <<key, value>> string pairs.
Params_new == <<>>

add_str(rqp, k, v) == Append(rqp, <<k, v>>)

add_uint(rqp, k, n) == Append(rqp, <<k, Dec(n)>>)

\* Option<&Params>: NO_PARAMS is None.
NO_PARAMS == [some |-> FALSE, params |-> <<>>]

Some(ps) == [some |-> TRUE, params |-> ps]

NO_BODY == ""

\* Identifier: an object id, a path, or a path relative to an object id.
Id(pid) == [variant |-> "Id", id |-> pid, path |-> ""]

Path(path) == [variant |-> "Path", id |-> "", path |-> path]

Relative(pid, path) == [variant |-> "Relative", id |-> pid, path |-> path]

NoId == [variant |-> "None", id |-> "", path |-> ""]

\* Identifier::to_params(&mut rqp, idkey, pathkey): the id entry, the path
\* entry, or the id entry followed by the path entry.
to_params(id, rqp, idkey, pathkey) ==
    CASE id.variant = "Id" -> add_str(rqp, idkey, id.id)
      [] id.variant = "Path" -> add_str(rqp, pathkey, id.path)
      [] id.variant = "Relative" ->
            add_str(add_str(rqp, idkey, id.id), pathkey, id.path)

\* The query of a request: the mandatory entries, then the optional ones.
MergeOverride(mand, opt) ==
    IF opt.some
    THEN SelectSeq(mand, LAMBDA e : \A i \in 1..Len(opt.params) :
                                        opt.params[i][1] # e[1]) \o opt.params
    ELSE mand

Merge(mand, opt) == IF opt.some THEN mand \o opt.params ELSE mand

\* ------------------------------------------------------------ endpoint layer
\* The arguments an endpoint method hands to self.hd.client.request(), and
\* whether it attaches a body to the request before sending it.
Rq(method, path, rqp, p, attach) ==
    [method |-> method, url |-> DEFAULT_API_BASE_URL \o path, rqp |-> rqp,
     p |-> p, attach |-> attach]

me(p) == Rq("GET", "/user/me", Params_new, p, FALSE)

get_permission(id, p) ==
    Rq("GET", "/permission", to_params(id, Params_new, "pid", "path"), p, FALSE)

set_permission(id, p) ==
    Rq("PUT", "/permission", to_params(id, Params_new, "pid", "path"), p, FALSE)

get(id, p) ==
    Rq("GET", "/file", to_params(id, Params_new, "pid", "path"), p, FALSE)

url(id, p) ==
    Rq("GET", "/file/url", to_params(id, Params_new, "pid", "path"), p, FALSE)

upload_(id, name, src, p, method) ==
    Rq(method, "/file",
       add_str(to_params(id, Params_new, "dir_id", "dir"), "name", name),
       p, TRUE)

upload_no_overwrite(dir, name, src, p) == upload_(dir, name, src, p, "POST")

uploadWithPost(dir, name, src, p) == upload_(dir, name, src, p, "POST")

upload(dir, name, src, p) == upload_(dir, name, src, p, "PUT")

truncate(id, size, p) ==
    Rq("POST", "/file/truncate",
       to_params(id, add_uint(Params_new, "size", size), "pid", "path"),
       p, FALSE)

copy(from, to, p) ==
    Rq("POST", "/file/copy",
       to_params(to, to_params(from, Params_new, "src_id", "src"),
                 "dst_id", "dst"),
       p, FALSE)

mv(from, to, p) ==
    Rq("POST", "/file/move",
       to_params(to, to_params(from, Params_new, "src_id", "src"),
                 "dst_id", "dst"),
       p, FALSE)

rename(id, name, p) ==
    Rq("GET", "/file/rename",
       to_params(id, add_str(Params_new, "name", name), "pid", "path"),
       p, FALSE)

delete(id, p) ==
    Rq("DELETE", "/file", to_params(id, Params_new, "pid", "path"), p, FALSE)

thumbnail(id, p) ==
    Rq("GET", "/file/thumbnail", to_params(id, Params_new, "pid", "path"),
       p, FALSE)

metadata(id, fields, p) ==
    Rq("GET", "/meta",
       add_str(to_params(id, Params_new, "pid", "path"), "fields", fields),
       p, FALSE)

search(root, fields, p) ==
    LET rqp == to_params(root, Params_new, "pid", "path")
    IN Rq("GET", "/search",
          IF fields # "" THEN add_str(rqp, "fields", fields) ELSE rqp,
          p, FALSE)

get_dir(id, p) ==
    Rq("GET", "/dir", to_params(id, Params_new, "pid", "path"), p, FALSE)

get_home_dir(p) == Rq("GET", "/dir/home", Params_new, p, FALSE)

mkdir(id, p) ==
    Rq("POST", "/dir", to_params(id, Params_new, "pid", "path"), p, FALSE)

delete_dir(id, p) ==
    Rq("DELETE", "/dir", to_params(id, Params_new, "pid", "path"), p, FALSE)

copy_dir(from, to, p) ==
    Rq("POST", "/dir/copy",
       to_params(to, to_params(from, Params_new, "src_id", "src"),
                 "dst_id", "dst"),
       p, FALSE)

mvdir(from, to, p) ==
    Rq("POST", "/dir/move",
       to_params(to, to_params(from, Params_new, "src_id", "src"),
                 "dst_id", "dst"),
       p, FALSE)

renamedir(dir, name, p) ==
    Rq("POST", "/dir/rename",
       to_params(dir, add_str(Params_new, "name", name), "pid", "path"),
       p, FALSE)

\* format!("{}-{}", a, b)
FmtRange(r) == (Dec(r[1]) \o "-") \o Dec(r[2])

\* .fold(String::new(), |s, e| (s + ",") + &e)
RECURSIVE FoldRanges(_, _)
FoldRanges(s, rs) ==
    IF rs = <<>> THEN s ELSE FoldRanges((s \o ",") \o FmtRange(Head(rs)), Tail(rs))

\* The value hash() gives the ranges parameter: "-" for no ranges, else the
\* folded string without its first character (&r[1..]).
RangesValueKeepsComma(ranges) ==
    IF ranges = <<>> THEN "-" ELSE FoldRanges("", ranges)

RangesValue(ranges) ==
    IF ranges = <<>> THEN "-"
    ELSE LET r == FoldRanges("", ranges) IN SubSeq(r, 2, Len(r))

hash(id, level, ranges, p) ==
    Rq("GET", "/file/hash",
       add_str(to_params(id, add_uint(Params_new, "level", level), "pid", "path"),
               "ranges", RangesValue(ranges)),
       p, FALSE)

\* The caller's arguments of one endpoint call.
Args(ep, id, to, name, n, ranges, p, src) ==
    [ep |-> ep, id |-> id, to |-> to, name |-> name, n |-> n,
     ranges |-> ranges, p |-> p, src |-> src]

NoCall == Args("none", NoId, NoId, "", 0, <<>>, NO_PARAMS, NO_BODY)

\* The request arguments of call c.
EndpointRequest(c) ==
    CASE c.ep = "me" -> me(c.p)
      [] c.ep = "get_permission" -> get_permission(c.id, c.p)
      [] c.ep = "set_permission" -> set_permission(c.id, c.p)
      [] c.ep = "get" -> get(c.id, c.p)
      [] c.ep = "url" -> url(c.id, c.p)
      [] c.ep = "upload_no_overwrite" ->
            upload_no_overwrite(c.id, c.name, c.src, c.p)
      [] c.ep = "upload" -> upload(c.id, c.name, c.src, c.p)
      [] c.ep = "truncate" -> truncate(c.id, c.n, c.p)
      [] c.ep = "copy" -> copy(c.id, c.to, c.p)
      [] c.ep = "mv" -> mv(c.id, c.to, c.p)
      [] c.ep = "rename" -> rename(c.id, c.name, c.p)
      [] c.ep = "delete" -> delete(c.id, c.p)
      [] c.ep = "thumbnail" -> thumbnail(c.id, c.p)
      [] c.ep = "metadata" -> metadata(c.id, c.name, c.p)
      [] c.ep = "search" -> search(c.id, c.name, c.p)
      [] c.ep = "get_dir" -> get_dir(c.id, c.p)
      [] c.ep = "get_home_dir" -> get_home_dir(c.p)
      [] c.ep = "mkdir" -> mkdir(c.id, c.p)
      [] c.ep = "delete_dir" -> delete_dir(c.id, c.p)
      [] c.ep = "copy_dir" -> copy_dir(c.id, c.to, c.p)
      [] c.ep = "mvdir" -> mvdir(c.id, c.to, c.p)
      [] c.ep = "renamedir" -> renamedir(c.id, c.name, c.p)
      [] c.ep = "hash" -> hash(c.id, c.n, c.ranges, c.p)

\* The arguments the callers of the model choose from.
Identifiers == {Id("p1"), Path("/a/b"), Relative("p1", "/a/b")}

Opts == {NO_PARAMS, Some(<<>>), Some(<< <<"pid", "p2">>, <<"fields", "name">> >>)}

Names == {"", "f"}

Sizes == {0, 1024}

Levels == {0, 12}

RangePairs == {<<0, 255>>, <<256, 511>>, <<7, 7>>}

RangeLists == UNION {[1..n -> RangePairs] : n \in 0..MaxRanges}

Calls ==
    {Args(ep, NoId, NoId, "", 0, <<>>, p, NO_BODY) :
        ep \in {"me", "get_home_dir"}, p \in Opts}
    \cup {Args(ep, id, NoId, "", 0, <<>>, p, NO_BODY) :
        ep \in {"get_permission", "set_permission", "get", "url", "delete",
                "thumbnail", "get_dir", "mkdir", "delete_dir"},
        id \in Identifiers, p \in Opts}
    \cup {Args(ep, id, to, "", 0, <<>>, p, NO_BODY) :
        ep \in {"copy", "mv", "copy_dir", "mvdir"},
        id \in Identifiers, to \in Identifiers, p \in Opts}
    \cup {Args(ep, id, NoId, name, 0, <<>>, p, NO_BODY) :
        ep \in {"rename", "renamedir", "metadata", "search"},
        id \in Identifiers, name \in Names, p \in Opts}
    \cup {Args(ep, id, NoId, name, 0, <<>>, p, "data") :
        ep \in {"upload", "upload_no_overwrite"},
        id \in Identifiers, name \in Names, p \in Opts}
    \cup {Args("truncate", id, NoId, "", n, <<>>, p, NO_BODY) :
        id \in Identifiers, n \in Sizes, p \in Opts}
    \cup {Args("hash", id, NoId, "", n, rs, p, NO_BODY) :
        id \in Identifiers, n \in Levels, rs \in RangeLists, p \in Opts}

\* ------------------------------------------------------- Request Dispatcher
NoReq == [method |-> "", url |-> "", query |-> <<>>, token |-> "", body |-> NO_BODY]

\* Client::request(method, url, mandatory, optional) with the token the
\* Token Manager returned: the pending request, bearer token attached.
request(method, u, rqp, p, tok) ==
    [method |-> method, url |-> u, query |-> Merge(rqp, p),
     token |-> TokStr(tok), body |-> NO_BODY]

\* set_attachment(src)
set_attachment(r, src) == [r EXCEPT !.body = src]

\* A 401 response is answered by one refresh and one retry, and only the
\* first time.
RetriesEvery401(status, sent) == status = 401

Retries(status, sent) == status = 401 /\ sent = 1

\* An endpoint method is called: it builds its parameters and awaits
\* request(), which asks the Token Manager for a token; `?` returns its error.
Call ==
    /\ ePc = "idle"
    /\ \E c \in Calls, o \in AccessTokenOutcomes :
        LET a == EndpointRequest(c) IN
        /\ call' = c
        /\ eMand' = a.rqp
        /\ tokCache' = o.cache
        /\ tokValid' = o.valid
        /\ eTokenReqs' = eTokenReqs + 1
        /\ IF o.ok
           THEN /\ req' = request(a.method, a.url, a.rqp, a.p, o.tok)
                /\ ePc' = "built"
                /\ eResult' = ""
           ELSE /\ req' = NoReq
                /\ ePc' = "done"
                /\ eResult' = "AuthError"
    /\ UNCHANGED <<wire, responses, nGo, eRefresh401, nvars, cvars, hvars>>

\* upload_: .set_attachment(src) on the request that request() returned.
SetAttachment ==
    /\ ePc = "built"
    /\ EndpointRequest(call).attach
    /\ req' = set_attachment(req, call.src)
    /\ ePc' = "attached"
    /\ UNCHANGED <<tvars, nvars, cvars, hvars, call, eMand, wire, responses, nGo,
                   eTokenReqs, eRefresh401, eResult>>

\* .go() or .download_file(): the pending request is sent.
Go ==
    /\ \/ ePc = "built" /\ ~EndpointRequest(call).attach
       \/ ePc = "attached"
    /\ nGo' = nGo + 1
    /\ wire' = Append(wire, req)
    /\ ePc' = "sent"
    /\ UNCHANGED <<tvars, nvars, cvars, hvars, call, eMand, req, responses, eTokenReqs,
                   eRefresh401, eResult>>

\* A 2xx response: the body is decoded, or does not have the expected shape.
ResponseSuccess ==
    /\ ePc = "sent"
    /\ responses' = Append(responses, 200)
    /\ \E r \in {"Ok", "DecodeError"} : eResult' = r
    /\ ePc' = "done"
    /\ UNCHANGED <<tvars, nvars, cvars, hvars, call, eMand, req, wire, nGo, eTokenReqs,
                   eRefresh401>>

\* A 401 response to the first attempt: the token is refreshed and the
\* request sent again with the new token, or the refresh fails.
ResponseUnauthorized ==
    /\ ePc = "sent"
    /\ Retries(401, Len(wire))
    /\ Len(wire) < MaxSends
    /\ responses' = Append(responses, 401)
    /\ eRefresh401' = eRefresh401 + 1
    /\ \/ /\ tokCache < MaxTokens
          /\ tokCache' = tokCache + 1
          /\ tokValid' = TRUE
          /\ req' = [req EXCEPT !.token = TokStr(tokCache + 1)]
          /\ wire' = Append(wire, req')
          /\ UNCHANGED <<ePc, eResult>>
       \/ /\ tokValid' = FALSE
          /\ ePc' = "done"
          /\ eResult' = "AuthError"
          /\ UNCHANGED <<tokCache, req, wire>>
    /\ UNCHANGED <<nvars, cvars, hvars, call, eMand, nGo, eTokenReqs>>

\* A 401 response to the retried request.
ResponseUnauthorizedAgain ==
    /\ ePc = "sent"
    /\ ~Retries(401, Len(wire))
    /\ responses' = Append(responses, 401)
    /\ eResult' = "AuthError"
    /\ ePc' = "done"
    /\ UNCHANGED <<tvars, nvars, cvars, hvars, call, eMand, req, wire, nGo, eTokenReqs,
                   eRefresh401>>

\* Any other status: the error envelope, or the raw status and body.
ResponseError ==
    /\ ePc = "sent"
    /\ \E st \in {404, 409, 500} :
        /\ ~Retries(st, Len(wire))
        /\ responses' = Append(responses, st)
    /\ \E r \in {"ApiError", "HttpError"} : eResult' = r
    /\ ePc' = "done"
    /\ UNCHANGED <<tvars, nvars, cvars, hvars, call, eMand, req, wire, nGo, eTokenReqs,
                   eRefresh401>>

\* The connection fails before a response arrives.
TransportFailure ==
    /\ ePc = "sent"
    /\ responses' = Append(responses, 0)
    /\ eResult' = "TransportError"
    /\ ePc' = "done"
    /\ UNCHANGED <<tvars, nvars, cvars, hvars, call, eMand, req, wire, nGo, eTokenReqs,
                   eRefresh401>>

\* The call returns and the handle's borrow of the hub ends.
Return ==
    /\ ePc = "done"
    /\ ePc' = "idle"
    /\ call' = NoCall
    /\ eMand' = <<>>
    /\ req' = NoReq
    /\ wire' = <<>>
    /\ responses' = <<>>
    /\ nGo' = 0
    /\ eTokenReqs' = 0
    /\ eRefresh401' = 0
    /\ eResult' = ""
    /\ UNCHANGED <<tvars, nvars, cvars, hvars>>

\* ------------------------------------------- Token Manager, concurrent callers
Callers == 1..NCallers

NoRes == [ok |-> FALSE, tok |-> 0]

\* The callers whose refresh network call is in progress.
Refreshing == {c \in Callers : cPc[c] = "refreshing"}

\* Single flight: a caller starts a refresh only when none is in progress.
MayRefreshAlways == TRUE

MayRefresh == Refreshing = {}

\* current_token() of caller c: the cached token when it is valid; else the
\* caller starts the refresh, or waits for the one in progress.
TokenRequest(c) ==
    /\ cPc[c] = "idle"
    /\ concurrent' = (concurrent /\ \A d \in Callers : cPc[d] # "done")
    /\ IF tokValid /\ tokCache # 0
       THEN /\ cPc' = [cPc EXCEPT ![c] = "done"]
            /\ cRes' = [cRes EXCEPT ![c] = [ok |-> TRUE, tok |-> tokCache]]
            /\ UNCHANGED <<cMiss, tRefreshCalls>>
       ELSE /\ cMiss' = [cMiss EXCEPT ![c] = TRUE]
            /\ IF MayRefresh
               THEN /\ cPc' = [cPc EXCEPT ![c] = "refreshing"]
                    /\ tRefreshCalls' = tRefreshCalls + 1
               ELSE /\ cPc' = [cPc EXCEPT ![c] = "waiting"]
                    /\ UNCHANGED tRefreshCalls
            /\ UNCHANGED cRes
    /\ UNCHANGED <<tvars, nvars, evars, hvars>>

\* The refresh of caller c completes: the cache is replaced and c and every
\* waiting caller receive the new token, or all of them receive the error.
RefreshDone(c) ==
    /\ cPc[c] = "refreshing"
    /\ LET served == {c} \cup {d \in Callers : cPc[d] = "waiting"} IN
       \/ /\ tokCache < MaxTokens
          /\ tokCache' = tokCache + 1
          /\ tokValid' = TRUE
          /\ cPc' = [d \in Callers |-> IF d \in served THEN "done" ELSE cPc[d]]
          /\ cRes' = [d \in Callers |->
                        IF d \in served THEN [ok |-> TRUE, tok |-> tokCache + 1]
                        ELSE cRes[d]]
       \/ /\ cPc' = [d \in Callers |-> IF d \in served THEN "done" ELSE cPc[d]]
          /\ cRes' = [d \in Callers |->
                        IF d \in served THEN [ok |-> FALSE, tok |-> 0]
                        ELSE cRes[d]]
          /\ UNCHANGED tvars
    /\ UNCHANGED <<nvars, evars, hvars, cMiss, tRefreshCalls, concurrent>>

\* Every caller has returned; the callers come back for another round.
NewRound ==
    /\ \A c \in Callers : cPc[c] = "done"
    /\ cPc' = [c \in Callers |-> "idle"]
    /\ cRes' = [c \in Callers |-> NoRes]
    /\ cMiss' = [c \in Callers |-> FALSE]
    /\ tRefreshCalls' = 0
    /\ concurrent' = TRUE
    /\ UNCHANGED <<tvars, nvars, evars, hvars>>

\* ------------------------------------------------------- borrows of the hub
Tasks == 1..NTasks

UserEndpoints == {"me"}

PermissionEndpoints == {"get_permission", "set_permission"}

FilesEndpoints ==
    {"get", "url", "upload_no_overwrite", "upload", "truncate", "copy", "mv",
     "rename", "delete", "thumbnail", "metadata", "search", "get_dir",
     "get_home_dir", "mkdir", "delete_dir", "copy_dir", "mvdir", "renamedir",
     "hash"}

\* The methods of the handle of the given kind.
EndpointsOf(kind) ==
    CASE kind = "user" -> UserEndpoints
      [] kind = "permissions" -> PermissionEndpoints
      [] kind = "files" -> FilesEndpoints

\* The tasks that hold a borrow of the hub: a handle, a session, or the
\* future of notifications().
Holders == {t \in Tasks : hHandle[t] # "none"}

\* user(), permissions(), files() and notifications() take `&mut self`, and
\* what they return keeps that borrow (hd: &'a mut HiDrive): the hub can be
\* borrowed only while nothing else borrows it.
HubFreeShared == TRUE

HubFree == Holders = {}

\* The endpoint methods take `&mut self` of their handle, and the future
\* they return keeps that borrow until it completes or is dropped.
HandleFree(t) == \A c \in hCalls : c.task # t

\* hd.user(), hd.permissions() or hd.files()
TakeHandle(t) ==
    /\ hHandle[t] = "none"
    /\ HubFree
    /\ \E kind \in {"user", "permissions", "files"} :
        hHandle' = [hHandle EXCEPT ![t] = kind]
    /\ UNCHANGED <<tvars, nvars, evars, cvars, hCalls>>

\* An endpoint method of the handle is called; its future awaits request().
HubStartCall(t) ==
    /\ hHandle[t] \in {"user", "permissions", "files"}
    /\ HandleFree(t)
    /\ \E ep \in EndpointsOf(hHandle[t]) :
        hCalls' = hCalls \cup {[task |-> t, ep |-> ep, phase |-> "request"]}
    /\ UNCHANGED <<tvars, nvars, evars, cvars, hHandle>>

\* request() returns: the call goes on to await go() / download_file(), or
\* returns the error.
HubRequestDone(t) ==
    /\ \E c \in hCalls :
        /\ c.task = t /\ c.phase = "request"
        /\ \/ hCalls' = (hCalls \ {c}) \cup {[c EXCEPT !.phase = "go"]}
           \/ hCalls' = hCalls \ {c}
    /\ UNCHANGED <<tvars, nvars, evars, cvars, hHandle>>

\* go() / download_file() returns and with it the call.
HubCallReturn(t) ==
    /\ \E c \in hCalls :
        /\ c.task = t /\ c.phase = "go"
        /\ hCalls' = hCalls \ {c}
    /\ UNCHANGED <<tvars, nvars, evars, cvars, hHandle>>

\* The handle goes out of scope.
HubDropHandle(t) ==
    /\ hHandle[t] \in {"user", "permissions", "files"}
    /\ HandleFree(t)
    /\ hHandle' = [hHandle EXCEPT ![t] = "none"]
    /\ UNCHANGED <<tvars, nvars, evars, cvars, hCalls>>

\* hd.notifications(): the future of HiDriveNotifications::new borrows the hub.
HubOpenSession(t) ==
    /\ hHandle[t] = "none"
    /\ HubFree
    /\ hHandle' = [hHandle EXCEPT ![t] = "opening"]
    /\ UNCHANGED <<tvars, nvars, evars, cvars, hCalls>>

\* new() returns the session, which keeps the borrow, or an error.
HubSessionOpened(t) ==
    /\ hHandle[t] = "opening"
    /\ \E h \in {"session", "none"} : hHandle' = [hHandle EXCEPT ![t] = h]
    /\ UNCHANGED <<tvars, nvars, evars, cvars, hCalls>>

\* The session goes out of scope.
HubDropSession(t) ==
    /\ hHandle[t] = "session"
    /\ hHandle' = [hHandle EXCEPT ![t] = "none"]
    /\ UNCHANGED <<tvars, nvars, evars, cvars, hCalls>>

Init ==
    /\ tokCache = 0
    /\ tokValid = FALSE
    /\ nPc = "none"
    /\ ws = "NoStream"
    /\ inbound = <<>>
    /\ eof = FALSE
    /\ consumed = <<>>
    /\ results = <<>>
    /\ nTokenReqs = 0
    /\ nHandshakes = 0
    /\ handshakeUrl = ""
    /\ openTok = 0
    /\ openErr = ""
    /\ ePc = "idle"
    /\ call = NoCall
    /\ eMand = <<>>
    /\ req = NoReq
    /\ wire = <<>>
    /\ responses = <<>>
    /\ nGo = 0
    /\ eTokenReqs = 0
    /\ eRefresh401 = 0
    /\ eResult = ""
    /\ cPc = [c \in Callers |-> "idle"]
    /\ cRes = [c \in Callers |-> NoRes]
    /\ cMiss = [c \in Callers |-> FALSE]
    /\ tRefreshCalls = 0
    /\ concurrent = TRUE
    /\ hHandle = [t \in Tasks |-> "none"]
    /\ hCalls = {}

NotifNext ==
    \/ NotifOpen
    \/ NotifConnect
    \/ NextCall
    \/ NextPoll
    \/ PeerSend
    \/ PeerEof
    \/ NotifDrop
    \/ Expire

Next ==
    \/ Call
    \/ SetAttachment
    \/ Go
    \/ ResponseSuccess
    \/ ResponseUnauthorized
    \/ ResponseUnauthorizedAgain
    \/ ResponseError
    \/ TransportFailure
    \/ Return
    \/ Expire

Spec == Init /\ [][Next]_vars

NotifSpec == Init /\ [][NotifNext]_vars

TokenNext ==
    \/ \E c \in Callers : TokenRequest(c)
    \/ \E c \in Callers : RefreshDone(c)
    \/ NewRound
    \/ Expire

TokenSpec == Init /\ [][TokenNext]_vars

HubNext ==
    \/ \E t \in Tasks : TakeHandle(t)
    \/ \E t \in Tasks : HubStartCall(t)
    \/ \E t \in Tasks : HubRequestDone(t)
    \/ \E t \in Tasks : HubCallReturn(t)
    \/ \E t \in Tasks : HubDropHandle(t)
    \/ \E t \in Tasks : HubOpenSession(t)
    \/ \E t \in Tasks : HubSessionOpened(t)
    \/ \E t \in Tasks : HubDropSession(t)

HubSpec == Init /\ [][HubNext]_vars

\* The loop of next() runs whenever the stream has an item for it; the peer
\* is under no obligation to send anything.
FairNotifSpec == NotifSpec /\ WF_vars(NextPoll)

\* ------------------------------------------------------------------ claims
\* The results of the next() calls that returned because of a frame.
FromFrames(rs) == SelectSeq(rs, LAMBDA r : r.item = "Ok")

\* The index of the first next() call that returned None, 0 when none did.
FirstNone ==
    IF \E i \in 1..Len(results) : results[i].kind = "None"
    THEN CHOOSE i \in 1..Len(results) :
            /\ results[i].kind = "None"
            /\ \A j \in 1..(i - 1) : results[j].kind # "None"
    ELSE 0

\* The text frames of fs that precede its first close frame.
RECURSIVE TextsBeforeClose(_)
TextsBeforeClose(fs) ==
    IF fs = <<>> \/ Head(fs).type = "Close" THEN <<>>
    ELSE IF Head(fs).type = "Text"
         THEN <<Head(fs)>> \o TextsBeforeClose(Tail(fs))
         ELSE TextsBeforeClose(Tail(fs))

\* C1: once a next() call has returned None for the first time, the calls
\* before it returned one value per text frame read before the first close
\* frame (or the end of the stream), in arrival order, each the decoded
\* payload of its frame, and that None came from a close frame or from the
\* end of the stream. Errors of the connection itself are left aside.
C1_EventsAreTextsBeforeClose ==
    FirstNone # 0 =>
        LET k == FirstNone
            read == SubSeq(consumed, 1, results[k].at)
            texts == TextsBeforeClose(read)
            vals == FromFrames(SubSeq(results, 1, k - 1))
        IN /\ Len(vals) = Len(texts)
           /\ \A i \in 1..Len(vals) :
                /\ vals[i].frame = texts[i]
                /\ vals[i].kind = "Some" => vals[i].val = texts[i].payload
           /\ results[k].frame.type = "Close" \/ results[k].item = "None"

\* A next() call has returned None because of a close frame.
ClosedByClose ==
    \E i \in 1..Len(results) :
        results[i].kind = "None" /\ results[i].frame.type = "Close"

\* C2: after a next() call returned None because of a close frame, at most
\* that one call reports the close, no later call returns an event, and
\* every later call returns.
C2_TerminalAfterClose ==
    /\ [](\A i, j \in 1..Len(results) :
            (i < j /\ results[i].kind = "None" /\ results[i].frame.type = "Close")
                => /\ results[j].kind # "Some"
                   /\ ~(results[j].kind = "None" /\ results[j].frame.type = "Close"))
    /\ ((ClosedByClose /\ nPc = "reading") ~> (nPc # "reading"))

\* C3: a next() call returns None only for a close frame or a stream that
\* has ended; a call that returns because of a text frame returns the event
\* or an error.
C3_NoneOnlyOnCloseOrEnd ==
    \A i \in 1..Len(results) :
        /\ results[i].kind = "None"
            => (results[i].frame.type = "Close" \/ results[i].item = "None")
        /\ results[i].frame.type = "Text" => results[i].kind \in {"Some", "Err"}

\* C4: opening a session asks for a token exactly once, before the
\* handshake; the handshake URL carries that token as access_token; a
\* failed token request fails the open with that error and without a
\* handshake; next() calls request no token.
C4_TokenOnceAtOpen ==
    /\ nTokenReqs <= 1 /\ nHandshakes <= 1
    /\ nPc # "none" => nTokenReqs = 1
    /\ nPc = "handshake" => nHandshakes = 0 /\ openTok # 0
    /\ nHandshakes = 1 =>
        /\ openTok # 0
        /\ handshakeUrl = "wss://api.hidrive.strato.com/2.1/subscribe?access_token="
                            \o TokStr(openTok)
    /\ (nTokenReqs = 1 /\ openTok = 0) =>
        /\ nPc = "failed" /\ openErr = "AuthError" /\ nHandshakes = 0
    /\ nPc \in {"open", "reading"} => nHandshakes = 1
    /\ results # <<>> => nTokenReqs = 1

\* A session was opened with token tok1 and next() has returned twice.
C4_Witness ==
    /\ nPc = "open"
    /\ Len(results) = 2
    /\ nTokenReqs = 1
    /\ handshakeUrl = "wss://api.hidrive.strato.com/2.1/subscribe?access_token=tok1"

\* The entries an Identifier contributes under the given key names.
IdEntries(id, idkey, pathkey) ==
    IF id.variant = "Id" THEN << <<idkey, id.id>> >>
    ELSE IF id.variant = "Path" THEN << <<pathkey, id.path>> >>
    ELSE << <<idkey, id.id>>, <<pathkey, id.path>> >>

\* The caller's optional entries.
OptEntries == IF call.p.some THEN call.p.params ELSE <<>>

\* q is the mandatory entries followed by the caller's optional entries.
MandThenOpt(q) ==
    /\ Len(q) = Len(eMand) + Len(OptEntries)
    /\ \A i \in 1..Len(eMand) : q[i] = eMand[i]
    /\ \A i \in 1..Len(OptEntries) : q[Len(eMand) + i] = OptEntries[i]

C7_MandatoryThenOptional ==
    /\ req # NoReq => MandThenOpt(req.query)
    /\ \A i \in 1..Len(wire) : MandThenOpt(wire[i].query)
    /\ (call.p = NO_PARAMS /\ req # NoReq) => req.query = eMand

\* get_permission with pid=p1 and the optional entries pid=p2, fields=name
\* was sent.
C7_Witness ==
    /\ call.ep = "get_permission"
    /\ wire # <<>>
    /\ wire[1].query = << <<"pid", "p1">>, <<"pid", "p2">>, <<"fields", "name">> >>

RECURSIVE JoinComma(_)
JoinComma(ss) ==
    IF Len(ss) = 1 THEN ss[1] ELSE (ss[1] \o ",") \o JoinComma(Tail(ss))

\* C8: hash() adds the mandatory entries level, identifier entries, ranges,
\* in that order, with exactly one ranges entry: "-" for the empty list,
\* else the start-end pairs in list order joined by single commas.
C8_HashRanges ==
    (call.ep = "hash") =>
        LET pairs == [i \in 1..Len(call.ranges) |->
                        (Dec(call.ranges[i][1]) \o "-") \o Dec(call.ranges[i][2])]
            want == IF call.ranges = <<>> THEN "-" ELSE JoinComma(pairs)
        IN /\ eMand = (<< <<"level", Dec(call.n)>> >>
                        \o IdEntries(call.id, "pid", "path"))
                        \o << <<"ranges", want>> >>
           /\ Cardinality({i \in 1..Len(eMand) : eMand[i][1] = "ranges"}) = 1
           /\ call.ranges = << <<0, 255>>, <<256, 511>> >> =>
                eMand[Len(eMand)] = <<"ranges", "0-255,256-511">>
           /\ call.ranges = <<>> => eMand[Len(eMand)] = <<"ranges", "-">>
           /\ \A i \in 1..Len(wire) :
                SubSeq(wire[i].query, 1, Len(eMand)) = eMand

\* hash() of the ranges (0,255),(256,511) at level 12 was sent.
C8_Witness ==
    /\ call.ep = "hash"
    /\ call.ranges = << <<0, 255>>, <<256, 511>> >>
    /\ wire # <<>>
    /\ wire[1].query[1] = <<"level", "12">>
    /\ \E i \in 1..Len(wire[1].query) :
        wire[1].query[i] = <<"ranges", "0-255,256-511">>

\* The call gives an Identifier::Id where only Path or Relative is accepted.
WrongVariant ==
    \/ call.ep \in {"copy", "mv", "copy_dir"} /\ call.to.variant = "Id"
    \/ call.ep = "mkdir" /\ call.id.variant = "Id"

\* C9: copy, mv, copy_dir and mkdir reject an identifier that is neither
\* Path nor Relative before dispatch: for such a call no request is built
\* or sent, and the call does not succeed. (The claim also excludes the
\* token request that request() makes first; a request on the wire refutes
\* it without that.)
C9_RejectsWrongVariant ==
    WrongVariant =>
        /\ wire = <<>> /\ nGo = 0
        /\ eResult # "Ok"

UploadCall == call.ep \in {"upload", "upload_no_overwrite"}

UploadMethod == IF call.ep = "upload" THEN "PUT" ELSE "POST"

\* What C10 says of the method, the path, the mandatory parameters and the
\* place of set_attachment between request() and the send.
C10_MethodParamsAndBody ==
    UploadCall =>
        /\ eMand = IdEntries(call.id, "dir_id", "dir") \o << <<"name", call.name>> >>
        /\ req # NoReq =>
            /\ req.method = UploadMethod
            /\ req.url = "https://api.hidrive.strato.com/2.1/file"
        /\ \A i \in 1..Len(wire) :
            /\ wire[i].method = UploadMethod
            /\ wire[i].url = "https://api.hidrive.strato.com/2.1/file"
            /\ wire[i].body = call.src
        /\ ePc = "built" => (req.body = NO_BODY /\ nGo = 0 /\ wire = <<>>)
        /\ ePc = "attached" => (req.body = call.src /\ nGo = 0 /\ wire = <<>>)
        /\ ePc = "sent" => nGo = 1
        /\ nGo <= 1

C5_SingleFlight ==
    /\ Cardinality(Refreshing) <= 1
    /\ concurrent =>
        /\ tRefreshCalls <= 1
        /\ \A c, d \in Callers :
            (cPc[c] = "done" /\ cPc[d] = "done") => cRes[c] = cRes[d]
        /\ ((\A c \in Callers : cPc[c] = "done" /\ cMiss[c])) => tRefreshCalls = 1

\* All callers found the token expired, ran concurrently and received the
\* one refreshed token.
C5_Witness ==
    /\ concurrent
    /\ \A c \in Callers : cPc[c] = "done" /\ cMiss[c] /\ cRes[c].ok
    /\ tRefreshCalls = 1

\* C11: a handle or a notification session holds the hub's borrow alone: at
\* most one of them lives at a time, at most one endpoint call is in flight
\* and it belongs to the one handle, and no endpoint call is in flight or
\* starts while a session is being opened or is alive.
C11_ExclusiveBorrow ==
    /\ Cardinality(Holders) <= 1
    /\ Cardinality(hCalls) <= 1
    /\ \A c \in hCalls : hHandle[c.task] \in {"user", "permissions", "files"}
    /\ (\E t \in Tasks : hHandle[t] \in {"opening", "session"}) => hCalls = {}

\* A task's files handle has a request on its way while the other tasks
\* hold nothing of the hub.
C11_Witness ==
    \E t \in Tasks :
        /\ hHandle[t] = "files"
        /\ hCalls = {[task |-> t, ep |-> "get", phase |-> "go"]}
        /\ \A u \in Tasks \ {t} : hHandle[u] = "none"

====
